---- MODULE Spec2Model ----
(***************************************************************************)
(* httpmon / http_exporter: a Prometheus exporter that, for every scrape   *)
(* of /metrics?target=..&timeout=.., builds a fresh collector, performs    *)
(* one instrumented GET (net/http + httptrace) and emits six gauges.       *)
(*                                                                         *)
(* The model follows src/http_exporter/http_exporter.go.  A scrape is a    *)
(* record of per-scrape variables indexed by its id; the net/http client   *)
(* (client.Do, line 115) is the environment: it fires the httptrace        *)
(* callbacks the code registers (lines 71-99) in the orders the Go         *)
(* transport can produce, follows redirects, and returns a response or an  *)
(* error.                                                                  *)
(***************************************************************************)
EXTENDS Integers, Sequences, FiniteSets, TLC

\* ------------------------------------------------------------------ bounds
NumScrapes == 2
MaxHops == 1

Scrapes == 1..NumScrapes

\* ------------------------------------------------------- program constants
DefaultTimeout == 10
Millisecond == 1000000
ZeroTime == 0
maxDuration == 2147483647
minDuration == 0 - maxDuration

\* ---------------------------------------------------------------- inputs
\* Target URLs, as the strings a caller can pass.  "http://[::1" is rejected
\* by url.Parse (missing ']' in host); the empty string parses.
BadURL == "http://[::1"
TargetURLs == {"", BadURL, "http://a.test/", "https://a.test/", "http://192.0.2.1/"}

\* The "timeout" query parameter, as a sequence of characters ("" is <<>>).
TimeoutParams == {<<>>, <<"a">>, <<"0">>, <<"-", "1">>, <<"3">>}

\* Timeouts a collector is constructed with directly (newHTTPStatsCollector).
DirectTimeouts == {10, 0, -1}

\* Status codes of a final response.  net/http accepts any three-digit code;
\* of the 1xx codes only 101 is handed to the caller as a final response; a
\* 3xx code is final when it carries no Location header.
FinalCodes == {101, 204, 301, 404, 503, 999}

\* ------------------------------------------------- library: url, strconv
ParseErr(u) == u = BadURL

Scheme(u) ==
  CASE u = "https://a.test/" -> "https"
    [] u = "http://a.test/" -> "http"
    [] u = "http://192.0.2.1/" -> "http"
    [] OTHER -> ""

HostIsIP(u) == u = "http://192.0.2.1/"

DigitVal ==
  [c \in {"0", "1", "2", "3", "4", "5", "6", "7", "8", "9"} |->
     CASE c = "0" -> 0 [] c = "1" -> 1 [] c = "2" -> 2 [] c = "3" -> 3
       [] c = "4" -> 4 [] c = "5" -> 5 [] c = "6" -> 6 [] c = "7" -> 7
       [] c = "8" -> 8 [] OTHER -> 9]

RECURSIVE ParseDigits(_, _)
\* The value of a digit sequence, or -1 when a character is no digit.
ParseDigits(str, acc) ==
  IF str = <<>> THEN acc
  ELSE IF Head(str) \notin DOMAIN DigitVal THEN -1
  ELSE ParseDigits(Tail(str), 10 * acc + DigitVal[Head(str)])

\* strconv.Atoi: an optional sign, then at least one digit; (0, err) otherwise.
Atoi(str) ==
  LET signed == str # <<>> /\ Head(str) \in {"-", "+"}
      digits == IF signed THEN Tail(str) ELSE str
      n == IF digits = <<>> THEN -1 ELSE ParseDigits(digits, 0)
  IN IF n < 0 THEN [val |-> 0, err |-> TRUE]
     ELSE [val |-> IF signed /\ Head(str) = "-" THEN 0 - n ELSE n, err |-> FALSE]

\* --------------------------------------------------------- stats (18-55)
\* time.Time.Sub: the difference, saturated at the Duration range.  Any
\* reading of time.Now() is more than the Duration range away from the zero
\* Time (year 1), so a difference with exactly one zero operand saturates.
Sub(t, u) ==
  IF t = u THEN 0
  ELSE IF u = ZeroTime THEN maxDuration
  ELSE IF t = ZeroTime THEN minDuration
  ELSE t - u

ZeroStats ==
  [tlsCert |-> "nil",
   Start |-> ZeroTime, DNSStart |-> ZeroTime, DNSDone |-> ZeroTime,
   ConnectStart |-> ZeroTime, ConnectDone |-> ZeroTime,
   TLSHandshakeStart |-> ZeroTime, TLSHandshakeDone |-> ZeroTime,
   GotConn |-> ZeroTime, GotFirstResponseByte |-> ZeroTime, Finish |-> ZeroTime]

dnsLookup(s) == Sub(s.DNSDone, s.DNSStart)

tcpConnection(s) == Sub(s.ConnectDone, s.ConnectStart)

TlsHandshakeFromStart(s) == Sub(s.TLSHandshakeDone, s.Start)

tlsHandshake(s) == Sub(s.TLSHandshakeDone, s.TLSHandshakeStart)

serverProcessing(s) == Sub(s.GotFirstResponseByte, s.GotConn)

contentTransfer(s) == Sub(s.Finish, s.GotFirstResponseByte)

ttfb(s) == Sub(s.GotFirstResponseByte, s.Start)

\* float64(d) / float64(time.Millisecond), kept as an exact fraction.
ns2ms(d) == [num |-> d, den |-> Millisecond]

\* ------------------------------------------------- prometheus: Desc, Metric
\* prometheus.NewDesc: the descriptor carries an error when its name or one
\* of its label names is invalid (here: empty).
NewDesc(fqName, variableLabels) ==
  [fqName |-> fqName, variableLabels |-> variableLabels,
   err |-> fqName = "" \/ \E k \in DOMAIN variableLabels : variableLabels[k] = ""]

\* prometheus.NewConstMetric: fails when the descriptor carries an error or
\* the number of label values differs from the number of variable labels.
NewConstMetric(desc, value, labelValues) ==
  IF desc.err \/ Len(labelValues) # Len(desc.variableLabels)
  THEN [err |-> TRUE]
  ELSE [err |-> FALSE, name |-> desc.fqName, value |-> value,
        label |-> labelValues[1]]

MetricNames ==
  <<"dns_lookup_time", "tcp_handshake_time", "tls_handshake_time",
    "server_processing_time", "content_transfer_time", "ttfb">>

\* A collector whose tcp_handshake_time descriptor declares a second label.
CollectorWithExtraLabel(url, timeout) ==
  [url |-> url, timeout |-> timeout,
   descs |-> [k \in 1..6 |->
                NewDesc(MetricNames[k],
                        IF k = 2 THEN <<"status_code", "target">>
                        ELSE <<"status_code">>)]]

\* newHTTPStatsCollector (124-166): descs[k] is the k-th descriptor field.
newHTTPStatsCollector(url, timeout) ==
  [url |-> url, timeout |-> timeout,
   descs |-> [k \in 1..6 |-> NewDesc(MetricNames[k], <<"status_code">>)]]

NoCollector == [url |-> "", timeout |-> 0, descs |-> <<>>]

\* ------------------------------------------------------------------ state
VARIABLES
  alive,       \* the exporter process is running (log.Fatalf ends it)
  httpsProxy,  \* the proxy http.ProxyFromEnvironment selects is reached over TLS
  pc,          \* per scrape: where its handler / Collect / visit stands
  collector,   \* per scrape: the httpStatsCollector built for it
  param,       \* per scrape: the timeout query parameter of the request
  origin,      \* per scrape: "handler" (prometheusReqsHandler) or "direct"
  stats,       \* per scrape: the stats value s of its visit call
  now,         \* per scrape: number of time.Now() readings its probe has taken
  tr,          \* per scrape: where the net/http transport stands with its request
  resp,        \* per scrape: the *http.Response visit returned (or nil)
  err,         \* per scrape: the error visit returned ("nil" when none)
  ch,          \* per scrape: the metrics Collect has sent on its channel
  visits       \* per scrape: number of visit calls made for it

vars ==
  <<alive, httpsProxy, pc, collector, param, origin, stats, now, tr, resp, err,
    ch, visits>>

NilResp == [nil |-> TRUE]

\* ph: the step the request in flight has reached; scheme: the scheme of that
\* request; schemes: the schemes of all requests of this probe so far; ip: the
\* host is an IP literal (no DNS lookup); hops: redirects followed; bg: the
\* step a racing or background dial has reached.
IdleTransport ==
  [ph |-> "idle", scheme |-> "", schemes |-> {}, ip |-> FALSE, hops |-> 0, bg |-> "none"]

\* The state after main has started listening: no scrape has arrived yet.
Init ==
  /\ alive = TRUE
  /\ httpsProxy \in BOOLEAN
  /\ pc = [i \in Scrapes |-> "idle"]
  /\ collector = [i \in Scrapes |-> NoCollector]
  /\ param = [i \in Scrapes |-> <<>>]
  /\ origin = [i \in Scrapes |-> "none"]
  /\ stats = [i \in Scrapes |-> ZeroStats]
  /\ now = [i \in Scrapes |-> 0]
  /\ tr = [i \in Scrapes |-> IdleTransport]
  /\ resp = [i \in Scrapes |-> NilResp]
  /\ err = [i \in Scrapes |-> "nil"]
  /\ ch = [i \in Scrapes |-> <<>>]
  /\ visits = [i \in Scrapes |-> 0]

\* ------------------------------------------------ prometheusReqsHandler
\* Lines 287-293: the := inside the if block declares a new timeout that
\* shadows the outer one, so the value parsed from the request is dropped at
\* the end of the block and the collector gets the outer variable.
HandlerTimeout(p) ==
  LET outer == DefaultTimeout
      inner == IF p # <<>> THEN Atoi(p).val ELSE outer
  IN outer

\* Lines 279-302 up to the point where the registry's Gather calls Collect
\* (MustRegister calls Describe only).
prometheusReqsHandler(i, target, p) ==
  /\ alive
  /\ pc[i] = "idle"
  /\ origin' = [origin EXCEPT ![i] = "handler"]
  /\ param' = [param EXCEPT ![i] = p]
  /\ IF target = ""
     THEN /\ pc' = [pc EXCEPT ![i] = "rejected"]
          /\ UNCHANGED collector
     ELSE /\ pc' = [pc EXCEPT ![i] = "collect"]
          /\ collector' =
               [collector EXCEPT ![i] = newHTTPStatsCollector(target, HandlerTimeout(p))]
  /\ UNCHANGED <<alive, httpsProxy, stats, now, tr, resp, err, ch, visits>>

\* A collector constructed directly, as TestVisit does, and then collected.
DirectCollect(i, target, timeout) ==
  /\ alive
  /\ pc[i] = "idle"
  /\ origin' = [origin EXCEPT ![i] = "direct"]
  /\ pc' = [pc EXCEPT ![i] = "collect"]
  /\ collector' = [collector EXCEPT ![i] = newHTTPStatsCollector(target, timeout)]
  /\ UNCHANGED <<alive, httpsProxy, param, stats, now, tr, resp, err, ch, visits>>

\* ------------------------------------------------------------------ visit
\* The stats value the callbacks of scrape i write and its Collect reads: the
\* local s of that scrape's own visit call (line 70).
SharedTrace(i) == 1

TraceOwner(i) == i

\* s.<field> = time.Now() in the probe of scrape i.  Only the order of the
\* readings one probe takes decides the sign of its durations: now[i] counts
\* them, and the k-th reading is the time k (the zero Time is no reading).
Stamp(i, field) ==
  /\ stats' = [stats EXCEPT ![TraceOwner(i)][field] = now[i] + 1]
  /\ now' = [now EXCEPT ![i] = @ + 1]

\* Client.Timeout = c.timeout seconds; net/http sets a deadline only when the
\* Timeout is positive (zero or negative: no timeout).
HasDeadline(c) == c.timeout > 0

\* The connection of the current request is set up with a TLS handshake.
ConnTLS(i) == tr[i].scheme = "https" \/ httpsProxy

Inflight(i) == alive /\ pc[i] = "inflight"

\* Lines 70-114: var s stats, the trace, http.NewRequest (log.Fatalf on a URL
\* that does not parse: the process exits), the client, s.Start.
VisitBegin(i) ==
  /\ alive
  /\ pc[i] = "collect"
  /\ visits' = [visits EXCEPT ![i] = @ + 1]
  /\ IF ParseErr(collector[i].url)
     THEN /\ alive' = FALSE
          /\ pc' = [pc EXCEPT ![i] = "fatal"]
          /\ UNCHANGED <<stats, now, tr>>
     ELSE /\ pc' = [pc EXCEPT ![i] = "inflight"]
          /\ stats' = [stats EXCEPT ![TraceOwner(i)] = [ZeroStats EXCEPT !.Start = now[i] + 1]]
          /\ now' = [now EXCEPT ![i] = @ + 1]
          /\ tr' = [tr EXCEPT ![i] =
                      [ph |-> "getconn", scheme |-> Scheme(collector[i].url),
                       schemes |-> {Scheme(collector[i].url)},
                       ip |-> HostIsIP(collector[i].url), hops |-> 0, bg |-> "none"]]
          /\ UNCHANGED alive
  /\ UNCHANGED <<httpsProxy, collector, param, origin, resp, err, ch>>

\* ------------------------------------------- the httptrace callbacks (72-98)
Rest == <<alive, httpsProxy, pc, collector, param, origin, resp, err, ch, visits>>

DNSStart(i) ==
  /\ Inflight(i)
  /\ tr[i].ph = "getconn" /\ tr[i].scheme # "" /\ ~tr[i].ip
  /\ Stamp(i, "DNSStart")
  /\ tr' = [tr EXCEPT ![i].ph = "dns"]
  /\ UNCHANGED Rest

DNSDone(i) ==
  /\ Inflight(i)
  /\ tr[i].ph = "dns"
  /\ Stamp(i, "DNSDone")
  /\ tr' = [tr EXCEPT ![i].ph = "resolved"]
  /\ UNCHANGED Rest

ConnectStart(i) ==
  /\ Inflight(i)
  /\ tr[i].ph = "resolved" \/ (tr[i].ph = "getconn" /\ tr[i].scheme # "" /\ tr[i].ip)
  /\ Stamp(i, "ConnectStart")
  /\ tr' = [tr EXCEPT ![i].ph = "dialing"]
  /\ UNCHANGED Rest

ConnectDone(i) ==
  /\ Inflight(i)
  /\ tr[i].ph = "dialing"
  /\ Stamp(i, "ConnectDone")
  /\ tr' = [tr EXCEPT ![i].ph = "connected"]
  /\ UNCHANGED Rest

TLSHandshakeStart(i) ==
  /\ Inflight(i)
  /\ tr[i].ph = "connected" /\ ConnTLS(i)
  /\ Stamp(i, "TLSHandshakeStart")
  /\ tr' = [tr EXCEPT ![i].ph = "tls"]
  /\ UNCHANGED Rest

\* Lines 87-92: the leaf certificate is kept when the handshake succeeded.
TLSHandshakeDone(i, ok) ==
  /\ Inflight(i)
  /\ tr[i].ph = "tls"
  /\ stats' = [stats EXCEPT ![TraceOwner(i)] =
                 [@ EXCEPT !.TLSHandshakeDone = now[i] + 1,
                           !.tlsCert = IF ok THEN "leaf" ELSE @]]
  /\ now' = [now EXCEPT ![i] = @ + 1]
  /\ tr' = [tr EXCEPT ![i].ph = IF ok THEN "secured" ELSE "broken"]
  /\ UNCHANGED Rest

GotConn(i) ==
  /\ Inflight(i)
  /\ \/ tr[i].ph = "connected" /\ ~ConnTLS(i)
     \/ tr[i].ph \in {"secured", "reuse"}
  /\ Stamp(i, "GotConn")
  /\ tr' = [tr EXCEPT ![i].ph = "gotconn"]
  /\ UNCHANGED Rest

GotFirstResponseByte(i) ==
  /\ Inflight(i)
  /\ tr[i].ph = "gotconn"
  /\ Stamp(i, "GotFirstResponseByte")
  /\ tr' = [tr EXCEPT ![i].ph = "firstbyte"]
  /\ UNCHANGED Rest

\* --------------------------------- client.Do (115): redirects, racing dials
\* The default client follows a redirect with a new request under the same
\* trace.  The redirect target needs a new connection (another host or
\* scheme, or no idle connection yet).
RedirectNewConn(i, scheme) ==
  /\ Inflight(i)
  /\ tr[i].ph = "firstbyte" /\ tr[i].hops < MaxHops
  /\ tr' = [tr EXCEPT ![i].ph = "getconn", ![i].scheme = scheme,
                      ![i].schemes = @ \cup {scheme}, ![i].hops = @ + 1]
  /\ UNCHANGED <<stats, now>>
  /\ UNCHANGED Rest

\* The redirect target is the same host: the transport queues the request
\* for an idle connection and, when dial is TRUE, has already started to dial
\* a new one in the background when the first connection becomes idle and is
\* handed to the request.
RedirectReuse(i, dial) ==
  /\ Inflight(i)
  /\ tr[i].ph = "firstbyte" /\ tr[i].hops < MaxHops
  /\ tr' = [tr EXCEPT ![i].ph = "reuse", ![i].hops = @ + 1,
                      ![i].bg = IF dial /\ @ = "none"
                                THEN (IF tr[i].ip THEN "conn0" ELSE "dns0")
                                ELSE @]
  /\ UNCHANGED <<stats, now>>
  /\ UNCHANGED Rest

\* net.Dialer's dual-stack dial: when the first address family has not
\* connected after the fallback delay, a second dial races it.
DualStackFallback(i) ==
  /\ Inflight(i)
  /\ tr[i].ph = "dialing" /\ tr[i].bg = "none" /\ ~tr[i].ip
  /\ tr' = [tr EXCEPT ![i].bg = "rconn0"]
  /\ UNCHANGED <<stats, now>>
  /\ UNCHANGED Rest

\* The callbacks of the racing or background dial: the same closures, called
\* from another goroutine, whenever that dial gets there.
BgDNSStart(i) ==
  /\ Inflight(i)
  /\ tr[i].bg = "dns0"
  /\ Stamp(i, "DNSStart")
  /\ tr' = [tr EXCEPT ![i].bg = "dns1"]
  /\ UNCHANGED Rest

BgDNSDone(i) ==
  /\ Inflight(i)
  /\ tr[i].bg = "dns1"
  /\ Stamp(i, "DNSDone")
  /\ tr' = [tr EXCEPT ![i].bg = "conn0"]
  /\ UNCHANGED Rest

BgConnectStart(i) ==
  /\ Inflight(i)
  /\ tr[i].bg \in {"conn0", "rconn0"}
  /\ Stamp(i, "ConnectStart")
  /\ tr' = [tr EXCEPT ![i].bg = IF @ = "conn0" THEN "conn1" ELSE "rconn1"]
  /\ UNCHANGED Rest

BgConnectDone(i) ==
  /\ Inflight(i)
  /\ tr[i].bg \in {"conn1", "rconn1"}
  /\ Stamp(i, "ConnectDone")
  /\ tr' = [tr EXCEPT ![i].bg = IF @ = "conn1" /\ ConnTLS(i) THEN "tls0" ELSE "gone"]
  /\ UNCHANGED Rest

BgTLSHandshakeStart(i) ==
  /\ Inflight(i)
  /\ tr[i].bg = "tls0"
  /\ Stamp(i, "TLSHandshakeStart")
  /\ tr' = [tr EXCEPT ![i].bg = "tls1"]
  /\ UNCHANGED Rest

BgTLSHandshakeDone(i, ok) ==
  /\ Inflight(i)
  /\ tr[i].bg = "tls1"
  /\ stats' = [stats EXCEPT ![TraceOwner(i)] =
                 [@ EXCEPT !.TLSHandshakeDone = now[i] + 1,
                           !.tlsCert = IF ok THEN "leaf" ELSE @]]
  /\ now' = [now EXCEPT ![i] = @ + 1]
  /\ tr' = [tr EXCEPT ![i].bg = "gone"]
  /\ UNCHANGED Rest

\* ------------------------------------------------ visit returns (115-121)
\* s.Finish = time.Now(); return s, resp, err.  From here on stats[i] is the
\* copy of s that visit returned: a callback that fires later writes the
\* variable of the closure, which nobody reads any more.
VisitReturn(i, r, e) ==
  /\ Stamp(i, "Finish")
  /\ resp' = [resp EXCEPT ![i] = r]
  /\ err' = [err EXCEPT ![i] = e]
  /\ pc' = [pc EXCEPT ![i] = "visited"]
  /\ UNCHANGED <<alive, httpsProxy, collector, param, origin, tr, ch, visits>>

\* client.Do returns the final response, its body not yet closed.
ClientDoOK(i, code) ==
  /\ Inflight(i)
  /\ tr[i].ph = "firstbyte"
  /\ VisitReturn(i, [nil |-> FALSE, StatusCode |-> code, bodyClosed |-> FALSE], "nil")

\* client.Do fails: unsupported scheme, DNS, connect, TLS, read error, too
\* many redirects.  The response is nil.
ClientDoErr(i) ==
  /\ Inflight(i)
  /\ VisitReturn(i, NilResp, "failed")

\* The redirect limit of the default client is reached: client.Do returns the
\* last response, its body already closed, together with an error.
RedirectLimit(i) ==
  /\ Inflight(i)
  /\ tr[i].ph = "firstbyte" /\ tr[i].hops = MaxHops
  /\ VisitReturn(i, [nil |-> FALSE, StatusCode |-> 302, bodyClosed |-> TRUE], "failed")

\* Client.Timeout elapses: the request is cancelled and client.Do fails.
ClientTimeout(i) ==
  /\ Inflight(i)
  /\ HasDeadline(collector[i])
  /\ VisitReturn(i, NilResp, "timeout")

\* ---------------------------------------------------- Collect (177-273)
\* resp.Body.Close(), deferred at line 183.
LeaveOpen(r) == r

Close(r) == [r EXCEPT !.bodyClosed = TRUE]

\* Lines 185-200: five independent range tests over the default "unknown".
StatusCodeOffByOne(code) ==
  IF code >= 100 /\ code < 199 THEN "1xx"
  ELSE IF code >= 200 /\ code < 299 THEN "2xx"
  ELSE IF code >= 300 /\ code < 399 THEN "3xx"
  ELSE IF code >= 400 /\ code < 499 THEN "4xx"
  ELSE IF code >= 500 /\ code < 599 THEN "5xx"
  ELSE "unknown"

statusCode(code) ==
  LET s0 == "unknown"
      s1 == IF code >= 100 /\ code <= 199 THEN "1xx" ELSE s0
      s2 == IF code >= 200 /\ code <= 299 THEN "2xx" ELSE s1
      s3 == IF code >= 300 /\ code <= 399 THEN "3xx" ELSE s2
      s4 == IF code >= 400 /\ code <= 499 THEN "4xx" ELSE s3
      s5 == IF code >= 500 /\ code <= 599 THEN "5xx" ELSE s4
  IN s5

\* The six durations in the order Collect emits them.
Durations(s) ==
  <<dnsLookup(s), tcpConnection(s), tlsHandshake(s), serverProcessing(s),
    contentTransfer(s), ttfb(s)>>

RECURSIVE EmitFrom(_, _, _, _, _)
\* Lines 202-272 from the k-th metric on: NewConstMetric, return on error,
\* else send the metric and go on to the next.
EmitFrom(c, s, label, k, sent) ==
  IF k > 6 THEN sent
  ELSE LET m == NewConstMetric(c.descs[k], ns2ms(Durations(s)[k]), <<label>>)
       IN IF m.err THEN sent
          ELSE EmitFrom(c, s, label, k + 1,
                        Append(sent, [name |-> m.name, label |-> m.label, value |-> m.value]))

\* Lines 178-273 after visit has returned: on an error log and return; else
\* label, emit, and (deferred, line 183) close the body on the way out.
CollectFinish(i) ==
  /\ alive
  /\ pc[i] = "visited"
  /\ pc' = [pc EXCEPT ![i] = "done"]
  /\ IF err[i] # "nil"
     THEN UNCHANGED <<ch, resp>>
     ELSE /\ ch' = [ch EXCEPT ![i] =
                      EmitFrom(collector[i], stats[TraceOwner(i)],
                               statusCode(resp[i].StatusCode), 1, @)]
          /\ resp' = [resp EXCEPT ![i] = Close(@)]
  /\ UNCHANGED <<alive, httpsProxy, collector, param, origin, stats, now, tr, err, visits>>

\* ---------------------------------------------------------- specifications
\* The steps of Collect and visit that every probe goes through.
Probe(i, codes) ==
  \/ VisitBegin(i)
  \/ DNSStart(i)
  \/ DNSDone(i)
  \/ ConnectStart(i)
  \/ ConnectDone(i)
  \/ TLSHandshakeStart(i)
  \/ \E ok \in BOOLEAN : TLSHandshakeDone(i, ok)
  \/ GotConn(i)
  \/ GotFirstResponseByte(i)
  \/ \E code \in codes : ClientDoOK(i, code)
  \/ ClientDoErr(i)
  \/ ClientTimeout(i)
  \/ CollectFinish(i)

\* The steps redirects and racing dials add.
Dials(i) ==
  \/ \E scheme \in {"http", "https"} : RedirectNewConn(i, scheme)
  \/ \E dial \in BOOLEAN : RedirectReuse(i, dial)
  \/ RedirectLimit(i)
  \/ DualStackFallback(i)
  \/ BgDNSStart(i)
  \/ BgDNSDone(i)
  \/ BgConnectStart(i)
  \/ BgConnectDone(i)
  \/ BgTLSHandshakeStart(i)
  \/ \E ok \in BOOLEAN : BgTLSHandshakeDone(i, ok)

\* One scrape of any target, with everything the transport can do.
Next ==
  \/ \E u \in TargetURLs : prometheusReqsHandler(1, u, <<>>)
  \/ \E u \in TargetURLs : DirectCollect(1, u, DefaultTimeout)
  \/ Probe(1, FinalCodes)
  \/ Dials(1)

Spec == Init /\ [][Next]_vars

\* Concurrent scrapes, each on the path of a probe without redirects.
ConcTargets == {BadURL, "http://a.test/", "https://a.test/"}

ConcCodes == {204, 503}

NextConc ==
  \E i \in Scrapes :
    \/ \E u \in ConcTargets : prometheusReqsHandler(i, u, <<>>)
    \/ Probe(i, ConcCodes)

InitConc == Init /\ ~httpsProxy

SpecConc == InitConc /\ [][NextConc]_vars

\* One scrape with every timeout a request or a caller can supply.  The
\* handler goroutine runs on (VisitBegin, CollectFinish) and a timer that
\* has been set fires (ClientTimeout); nothing obliges the network to answer.
NextTimeout ==
  \/ \E u \in TargetURLs, p \in TimeoutParams : prometheusReqsHandler(1, u, p)
  \/ \E u \in TargetURLs, t \in DirectTimeouts : DirectCollect(1, u, t)
  \/ Probe(1, FinalCodes)

SpecTimeout ==
  /\ Init
  /\ [][NextTimeout]_vars
  /\ WF_vars(VisitBegin(1))
  /\ WF_vars(ClientTimeout(1))
  /\ WF_vars(CollectFinish(1))

\* Collect's labelling applied to every status code a response can carry:
\* visit has just returned a response of a plain-HTTP probe.
MaxStatusCode == 999

CompleteTrace ==
  [tlsCert |-> "nil",
   Start |-> 1, DNSStart |-> 2, DNSDone |-> 3, ConnectStart |-> 4, ConnectDone |-> 5,
   TLSHandshakeStart |-> ZeroTime, TLSHandshakeDone |-> ZeroTime,
   GotConn |-> 6, GotFirstResponseByte |-> 7, Finish |-> 8]

InitStatus ==
  /\ alive = TRUE
  /\ httpsProxy = FALSE
  /\ pc = [i \in Scrapes |-> IF i = 1 THEN "visited" ELSE "idle"]
  /\ collector = [i \in Scrapes |->
                    IF i = 1 THEN newHTTPStatsCollector("http://a.test/", DefaultTimeout)
                    ELSE NoCollector]
  /\ param = [i \in Scrapes |-> <<>>]
  /\ origin = [i \in Scrapes |-> IF i = 1 THEN "handler" ELSE "none"]
  /\ stats = [i \in Scrapes |-> IF i = 1 THEN CompleteTrace ELSE ZeroStats]
  /\ now = [i \in Scrapes |-> IF i = 1 THEN CompleteTrace.Finish ELSE 0]
  /\ tr = [i \in Scrapes |->
             IF i = 1
             THEN [ph |-> "firstbyte", scheme |-> "http", schemes |-> {"http"},
                   ip |-> FALSE, hops |-> 0, bg |-> "none"]
             ELSE IdleTransport]
  /\ \E code \in 0..MaxStatusCode :
       resp = [i \in Scrapes |->
                 IF i = 1 THEN [nil |-> FALSE, StatusCode |-> code, bodyClosed |-> FALSE]
                 ELSE NilResp]
  /\ err = [i \in Scrapes |-> "nil"]
  /\ ch = [i \in Scrapes |-> <<>>]
  /\ visits = [i \in Scrapes |-> IF i = 1 THEN 1 ELSE 0]

NextStatus == CollectFinish(1)

SpecStatus == InitStatus /\ [][NextStatus]_vars

\* Fault injection for Collect's error branches (lines 208-211 and the five
\* like it).  With the descriptors newHTTPStatsCollector builds and the six
\* label strings of lines 185-200, NewConstMetric cannot fail; here the
\* collector is a struct value whose k-th descriptor carries an error, as
\* NewDesc returns for an invalid name.
CollectWithInvalidDesc(i, target, k) ==
  /\ alive
  /\ pc[i] = "idle"
  /\ origin' = [origin EXCEPT ![i] = "direct"]
  /\ pc' = [pc EXCEPT ![i] = "collect"]
  /\ collector' =
       [collector EXCEPT ![i] =
          [newHTTPStatsCollector(target, DefaultTimeout) EXCEPT
             !.descs[k] = NewDesc("", <<"status_code">>)]]
  /\ UNCHANGED <<alive, httpsProxy, param, stats, now, tr, resp, err, ch, visits>>

NextFault ==
  \/ \E u \in ConcTargets : prometheusReqsHandler(1, u, <<>>)
  \/ \E k \in 1..6 : CollectWithInvalidDesc(1, "http://a.test/", k)
  \/ Probe(1, ConcCodes)

SpecFault == Init /\ [][NextFault]_vars

\* ================================================================= claims
Returned(i) == pc[i] \in {"visited", "done"}

Succeeded(i) == Returned(i) /\ err[i] = "nil"

\* The status class the specification assigns to a code.
ExpectedClass(code) ==
  IF code >= 100 /\ code <= 599
  THEN <<"1xx", "2xx", "3xx", "4xx", "5xx">>[code \div 100]
  ELSE "unknown"

\* C1: every call of Collect emits zero samples or exactly six: zero when
\* visit returned an error, and the six metrics in order, all labelled with the
\* status class of the response, whenever a response was obtained (any code).
C1_ZeroOrSixSamples ==
  \A i \in Scrapes :
    /\ Len(ch[i]) \in {0, 6}
    /\ pc[i] = "done" /\ err[i] # "nil" => ch[i] = <<>>
    /\ pc[i] = "done" /\ err[i] = "nil" =>
         /\ Len(ch[i]) = 6
         /\ \A k \in 1..6 :
              /\ ch[i][k].name = MetricNames[k]
              /\ ch[i][k].label = ExpectedClass(resp[i].StatusCode)

\* A scrape answered 503 has emitted its six samples.
C1_Witness ==
  \E i \in Scrapes :
    pc[i] = "done" /\ err[i] = "nil" /\ resp[i].StatusCode = 503 /\ Len(ch[i]) = 6

\* C2: a scrape whose target URL does not parse is a failure of that scrape
\* alone: its probe returns an error, it emits nothing, and the process keeps
\* running (so that every other scrape is still served).
C2_MalformedURLIsScrapeLocal ==
  \A i \in Scrapes :
    visits[i] > 0 /\ ParseErr(collector[i].url) =>
      /\ alive
      /\ Returned(i) /\ err[i] # "nil" /\ ch[i] = <<>>

\* C3: every probe in flight eventually returns to Collect, whatever timeout
\* the collector was constructed with.
C3_ProbeEventuallyReturns ==
  \A i \in Scrapes : (pc[i] = "inflight") ~> Returned(i)

\* Everything that belongs to scrape i.
Local(i) ==
  <<pc[i], collector[i], param[i], origin[i], stats[i], now[i], tr[i], resp[i],
    err[i], ch[i], visits[i]>>

C4_OwnProbeOnly ==
  \A i \in Scrapes :
    /\ visits[i] <= 1
    /\ pc[i] \in {"inflight", "visited", "done"} => visits[i] = 1
    /\ pc[i] \in {"idle", "rejected", "collect"} => stats[i] = ZeroStats
    /\ pc[i] = "done" /\ err[i] = "nil" =>
         /\ Len(ch[i]) = 6
         /\ ch[i][1].value.num = Sub(stats[i].DNSDone, stats[i].DNSStart)
         /\ ch[i][2].value.num = Sub(stats[i].ConnectDone, stats[i].ConnectStart)
         /\ ch[i][3].value.num = Sub(stats[i].TLSHandshakeDone, stats[i].TLSHandshakeStart)
         /\ ch[i][4].value.num = Sub(stats[i].GotFirstResponseByte, stats[i].GotConn)
         /\ ch[i][5].value.num = Sub(stats[i].Finish, stats[i].GotFirstResponseByte)
         /\ ch[i][6].value.num = Sub(stats[i].GotFirstResponseByte, stats[i].Start)

C4_OneScrapePerStep ==
  \A i, j \in Scrapes :
    i # j => ~(Local(i)' # Local(i) /\ Local(j)' # Local(j))

\* C4: scrapes are isolated: a scrape makes exactly one visit call, no step
\* of one scrape changes anything that belongs to another, and the samples
\* of a scrape are the differences of the checkpoints of its own probe.
C4_ScrapesIsolated == [](C4_OwnProbeOnly) /\ [][C4_OneScrapePerStep]_vars

\* Two scrapes of the same target are in flight with different traces.
C4_Witness ==
  \E i, j \in Scrapes :
    /\ i # j
    /\ pc[i] = "inflight" /\ pc[j] = "done" /\ err[j] = "nil"
    /\ collector[i].url = collector[j].url
    /\ stats[i].ConnectDone # ZeroTime
    /\ stats[i] # stats[j]

\* C5: the status_code label is the class of the response status code:
\* 1xx..5xx for 100-599, "unknown" for every other code, one label per code.
C5_StatusClass ==
  \A i \in Scrapes :
    pc[i] = "done" /\ err[i] = "nil" =>
      LET code == resp[i].StatusCode
          labels == {ch[i][k].label : k \in DOMAIN ch[i]}
      IN /\ labels = {ExpectedClass(code)}
         /\ code = 204 => labels = {"2xx"}
         /\ code = 404 => labels = {"4xx"}
         /\ code = 999 => labels = {"unknown"}

\* The scrape answered 199, the last code of the 1xx class, is labelled.
C5_Witness ==
  \E i \in Scrapes :
    pc[i] = "done" /\ resp[i].StatusCode = 199 /\ Len(ch[i]) = 6 /\ ch[i][1].label = "1xx"

\* The timeout a caller asked for: the request's parameter when it is a
\* positive integer, the collector's own timeout when constructed directly.
RequestedTimeout(i) ==
  LET asked == IF origin[i] = "handler"
               THEN (IF param[i] = <<>> \/ Atoi(param[i]).err THEN 0
                     ELSE Atoi(param[i]).val)
               ELSE collector[i].timeout
  IN IF asked > 0 THEN asked ELSE DefaultTimeout

\* C6: the timeout that bounds the probe is the one the request supplied
\* when that is a positive integer, and the default of 10 seconds otherwise
\* (also for a collector constructed with a zero or negative timeout).
C6_TimeoutInEffect ==
  \A i \in Scrapes :
    pc[i] \in {"collect", "inflight", "visited", "done"} =>
      /\ HasDeadline(collector[i])
      /\ collector[i].timeout = RequestedTimeout(i)

\* C7: no derived duration that Collect emits is negative.
C7_NoNegativeSample ==
  \A i \in Scrapes : \A k \in DOMAIN ch[i] : ch[i][k].value.num >= 0

\* C8 as claimed: every successful probe of a plain-HTTP target leaves the
\* TLS checkpoints at the zero value and emits tls_handshake_time = 0.
C8_PlainHTTPNeverTLS ==
  \A i \in Scrapes :
    Succeeded(i) /\ Scheme(collector[i].url) = "http" =>
      /\ stats[i].TLSHandshakeStart = ZeroTime
      /\ stats[i].TLSHandshakeDone = ZeroTime
      /\ pc[i] = "done" => ch[i][3].value.num = 0

\* C8 as amended: a phase whose two checkpoints were never reached has
\* duration exactly 0; a successful probe of a plain-HTTP target that followed
\* no redirect to an https URL and went through no TLS proxy leaves the TLS
\* checkpoints at the zero value and emits tls_handshake_time = 0, whatever
\* callbacks fired.
C8_NoTLSWithoutTLSConnection ==
  \A i \in Scrapes :
    /\ stats[i].DNSStart = ZeroTime /\ stats[i].DNSDone = ZeroTime
         => dnsLookup(stats[i]) = 0
    /\ stats[i].ConnectStart = ZeroTime /\ stats[i].ConnectDone = ZeroTime
         => tcpConnection(stats[i]) = 0
    /\ stats[i].TLSHandshakeStart = ZeroTime /\ stats[i].TLSHandshakeDone = ZeroTime
         => tlsHandshake(stats[i]) = 0
    /\ Succeeded(i) /\ tr[i].schemes = {"http"} /\ ~httpsProxy =>
         /\ stats[i].TLSHandshakeStart = ZeroTime
         /\ stats[i].TLSHandshakeDone = ZeroTime
         /\ tlsHandshake(stats[i]) = 0
         /\ pc[i] = "done" => ch[i][3].name = "tls_handshake_time" /\ ch[i][3].value.num = 0

\* A plain-HTTP probe that followed a redirect and raced a second dial has
\* emitted tls_handshake_time = 0.
C8_Witness ==
  \E i \in Scrapes :
    /\ pc[i] = "done" /\ err[i] = "nil" /\ ~httpsProxy
    /\ tr[i].schemes = {"http"} /\ tr[i].hops > 0 /\ tr[i].bg # "none"
    /\ ch[i][3].value.num = 0

C10_OnlyFailingMetricOmitted ==
  \A i \in Scrapes :
    pc[i] = "done" /\ err[i] = "nil" =>
      \A k \in 1..6 :
        ~collector[i].descs[k].err => \E n \in DOMAIN ch[i] : ch[i][n].name = MetricNames[k]

====
